---- MODULE Spec2Model ----
(***************************************************************************)
(* Tw2GeometryRes: the geometry resource of ccpwgl2 (src/unnamed/part_000). *)
(* The resource's fields are the variables; every method is an operator on  *)
(* a record of those fields (the `this` of the method) and an action that   *)
(* applies it.  Collaborators whose code is outside the repository files    *)
(* at hand (Tw2GeometryMesh, Tw2Resource, resMan, box3, the readers) are    *)
(* modelled from their documented contract and marked so in the map.        *)
(***************************************************************************)
EXTENDS Integers, Sequences, FiniteSets, TLC

VARIABLES
    meshes,                 \* this.meshes: sequence of mesh records
    models,                 \* this.models
    animations,             \* this.animations
    minBounds,              \* this.minBounds (one axis)
    maxBounds,              \* this.maxBounds (one axis)
    boundsSpherePosition,   \* this.boundsSpherePosition (doubled, one axis)
    boundsSphereRadius,     \* this.boundsSphereRadius (doubled)
    isCustom,               \* this._isCustom
    requiresSystemMirror,   \* this._requiresSystemMirror
    requestResponseType,    \* this._requestResponseType
    extension,              \* this._extension
    boundsDirty,            \* this._boundsDirty
    custom,                 \* this._custom (never declared: undefined at first)
    state,                  \* Tw2Resource state behind IsGood()
    systemMirrorEnabled,    \* resMan.IsSystemMirrorEnabled()
    pending,                \* SetSystemMirror callers suspended on a reload
    last                    \* what the last call did: op, arguments, result, effects

vars == <<meshes, models, animations, minBounds, maxBounds, boundsSpherePosition,
          boundsSphereRadius, isCustom, requiresSystemMirror, requestResponseType,
          extension, boundsDirty, custom, state, systemMirrorEnabled, pending, last>>

-----------------------------------------------------------------------------
(* Bounds of the model *)

\* Most render passes of one effect technique.
MaxPass == 2
\* Largest `start` argument of a render call.
MaxStart == 2
\* Largest `count` argument of a render call.
MaxCount == 4
\* Most SetSystemMirror callers suspended at once.
MaxPending == 2

-----------------------------------------------------------------------------
(* Values *)

Null == "null"

\* this._custom while no factory is recorded (undefined, or null after Prepare).
NoCustom == [set |-> FALSE, factory |-> Null, options |-> Null]

\* box3.bounds.empty: min = +infinity, max = -infinity on every axis.
BoxInf == 99

Min(a, b) == IF a <= b THEN a ELSE b
Max(a, b) == IF a >= b THEN a ELSE b

\* The keys of `readers`: each reader's extension, lowercased.
ReaderKeys == {"obj", "cake", "gr2_json", "wbg"}

\* String.prototype.toLowerCase on the extensions the model feeds in.
ToLowerCase(e) == IF e = "OBJ" THEN "obj" ELSE IF e = "Wbg" THEN "wbg" ELSE e

\* readers[key]: the reader, or undefined.
ReaderOf(key) == IF key \in ReaderKeys THEN key ELSE Null

\* Reader.byMesh
ByMesh(reader) == reader \in {"obj", "cake"}

\* Reader.requestResponseType
ResponseTypeOf(reader) == IF reader \in {"obj", "gr2_json"} THEN "text" ELSE "arraybuffer"

\* Extensions handed to DoCustomLoad.
Extensions == {"obj", "OBJ", "wbg", "xyz"}

\* Area lists (start, count) of the geometry the readers produce.
AreasExample == << <<0, 10>>, <<20, 5>>, <<30, 8>>, <<100, 4>> >>
AreasJoined == << <<0, 3>>, <<6, 3>> >>
AreasApart == << <<0, 2>>, <<8, 2>>, <<12, 1>> >>
\* Areas of a mesh with 32-bit indices (byte offsets are multiples of 4): the
\* second starts inside the first, the third right after the second.
AreasWide == << <<0, 6>>, <<12, 6>>, <<36, 3>> >>

\* The assets: what a reader decodes from each (mesh descriptors, models, animations).
DataSet == {"single", "pair", "none"}

MeshesOf(d) ==
    CASE d = "single" -> << [areas |-> AreasExample, stride |-> 32, geom |-> <<1, 3>>,
                             indexBytes |-> 2] >>
      [] d = "pair"   -> << [areas |-> AreasJoined, stride |-> 12, geom |-> <<2, 4>>,
                             indexBytes |-> 2],
                            [areas |-> AreasApart, stride |-> 24, geom |-> <<5, 7>>,
                             indexBytes |-> 2] >>
      [] d = "wide"   -> << [areas |-> AreasWide, stride |-> 16, geom |-> <<1, 4>>,
                             indexBytes |-> 4] >>
      [] OTHER        -> << >>

ModelsOf(d) == IF d = "none" THEN << >> ELSE << d >>
AnimationsOf(d) == IF d = "pair" THEN << d >> ELSE << >>

-----------------------------------------------------------------------------
(* The resource as a record: the `this` of the methods *)

This ==
    [meshes |-> meshes, models |-> models, animations |-> animations,
     minBounds |-> minBounds, maxBounds |-> maxBounds,
     boundsSpherePosition |-> boundsSpherePosition,
     boundsSphereRadius |-> boundsSphereRadius,
     isCustom |-> isCustom, requiresSystemMirror |-> requiresSystemMirror,
     requestResponseType |-> requestResponseType, extension |-> extension,
     boundsDirty |-> boundsDirty, custom |-> custom, state |-> state]

\* The fields after a call: `t` is the method's `this` when it returns.
Becomes(t) ==
    /\ meshes' = t.meshes
    /\ models' = t.models
    /\ animations' = t.animations
    /\ minBounds' = t.minBounds
    /\ maxBounds' = t.maxBounds
    /\ boundsSpherePosition' = t.boundsSpherePosition
    /\ boundsSphereRadius' = t.boundsSphereRadius
    /\ isCustom' = t.isCustom
    /\ requiresSystemMirror' = t.requiresSystemMirror
    /\ requestResponseType' = t.requestResponseType
    /\ extension' = t.extension
    /\ boundsDirty' = t.boundsDirty
    /\ custom' = t.custom
    /\ state' = t.state

\* One recorded effect of a call: a collaborator method called, with its arguments.
Ev(e, a, b, c) == [e |-> e, a |-> a, b |-> b, c |-> c]

Did(op, arg, ret, events) == [op |-> op, arg |-> arg, ret |-> ret, events |-> events]

NoArg == [none |-> TRUE]

-----------------------------------------------------------------------------
(* Tw2GeometryMesh *)

\* new Tw2GeometryMesh(), filled from a decoded descriptor.
NewMesh(desc, mirror, required) ==
    [areas |-> desc.areas, stride |-> desc.stride, geom |-> desc.geom,
     mirror |-> mirror, required |-> required,
     dirty |-> TRUE, minBounds |-> 0, maxBounds |-> 0,
     buffer |-> "vb", indexes |-> "ib", indexBytes |-> desc.indexBytes]

\* mesh.HasSystemMirror()
HasSystemMirror(m) == m.mirror

\* mesh.IsSystemMirrorRequired()
IsSystemMirrorRequired(m) == m.required

\* mesh.ClearSystemMirrorIfNotRequired()
MeshClearSystemMirrorIfNotRequired(m) ==
    IF IsSystemMirrorRequired(m) THEN m ELSE [m EXCEPT !.mirror = FALSE]

\* mesh.RebuildBounds(force)
MeshRebuildBounds(m, force) ==
    IF m.dirty \/ force
    THEN [m EXCEPT !.minBounds = m.geom[1], !.maxBounds = m.geom[2], !.dirty = FALSE]
    ELSE m

-----------------------------------------------------------------------------
(* box3.bounds *)

\* box3.bounds.union over a mesh list, starting from (lo, hi).
RECURSIVE UnionBounds(_, _, _)
UnionBounds(ms, lo, hi) ==
    IF ms = << >> THEN <<lo, hi>>
    ELSE UnionBounds(Tail(ms), Min(lo, Head(ms).minBounds), Max(hi, Head(ms).maxBounds))

\* box3.bounds.toPositionRadius: centre (doubled) and radius (doubled) of a box;
\* the empty box gives the zero sphere at the origin.
ToPositionRadius(lo, hi) == IF lo > hi THEN <<0, 0>> ELSE <<lo + hi, hi - lo>>

-----------------------------------------------------------------------------
(* Tw2GeometryRes: bounds *)

\* The loop of RebuildBounds that looks for a dirty mesh.
AnyMeshDirty(ms) == \E i \in 1..Len(ms) : ms[i].dirty

\* A flag escalation that never looks at the meshes.
EscalatedDirtyIgnoringMeshes(t, force) == t.boundsDirty

\* The flag after the escalation step of RebuildBounds(force).
EscalatedDirty(t, force) ==
    IF ~t.boundsDirty /\ ~force THEN AnyMeshDirty(t.meshes) ELSE t.boundsDirty

\* A rebuild that recomputes but leaves the resource's flag set.
RebuildBoundsLeavesDirty(t, force) ==
    LET ms == [i \in 1..Len(t.meshes) |-> MeshRebuildBounds(t.meshes[i], force)]
        box == UnionBounds(ms, BoxInf, -BoxInf)
        sph == ToPositionRadius(box[1], box[2])
    IN [t EXCEPT !.meshes = ms, !.minBounds = box[1], !.maxBounds = box[2],
                 !.boundsSpherePosition = sph[1], !.boundsSphereRadius = sph[2],
                 !.boundsDirty = TRUE]

\* RebuildBounds(force)
RebuildBounds(t, force) ==
    LET dirty == EscalatedDirty(t, force) IN
    IF dirty \/ force
    THEN LET ms == [i \in 1..Len(t.meshes) |-> MeshRebuildBounds(t.meshes[i], force)]
             box == UnionBounds(ms, BoxInf, -BoxInf)
             sph == ToPositionRadius(box[1], box[2])
         IN [t EXCEPT !.meshes = ms, !.minBounds = box[1], !.maxBounds = box[2],
                      !.boundsSpherePosition = sph[1], !.boundsSphereRadius = sph[2],
                      !.boundsDirty = FALSE]
    ELSE [t EXCEPT !.boundsDirty = dirty]

\* A Clear that resets the bounds but keeps the lists.
ClearKeepsLists(t) ==
    [t EXCEPT !.minBounds = 0, !.maxBounds = 0,
              !.boundsSpherePosition = 0, !.boundsSphereRadius = 0]

\* Clear()
Clear(t) ==
    [t EXCEPT !.meshes = << >>, !.models = << >>, !.animations = << >>,
              !.minBounds = 0, !.maxBounds = 0,
              !.boundsSpherePosition = 0, !.boundsSphereRadius = 0]

-----------------------------------------------------------------------------
(* Tw2GeometryRes: system mirror *)

\* The guard of ClearSystemMirrorIfNotRequired().
MayClearSystemMirror(t) == ~t.requiresSystemMirror /\ ~t.isCustom

\* ClearSystemMirrorIfNotRequired()
ClearSystemMirrorIfNotRequired(t) ==
    IF MayClearSystemMirror(t)
    THEN [t EXCEPT !.meshes =
            [i \in 1..Len(t.meshes) |-> MeshClearSystemMirrorIfNotRequired(t.meshes[i])]]
    ELSE t

-----------------------------------------------------------------------------
(* Tw2GeometryRes: loading *)

\* Per-mesh choices a structured reader makes: keep the CPU copy, pin it.
MeshFlags == [mirror : BOOLEAN, required : BOOLEAN]
FlagSeqs == [1..2 -> MeshFlags]

\* The flag choices the mirror specification feeds in: any flags for the first
\* mesh, and a second mesh that keeps an unpinned copy or pins a missing one.
MirrorFlagSeqs ==
    { [i \in 1..2 |-> IF i = 1 THEN f ELSE g] :
        f \in MeshFlags,
        g \in { [mirror |-> TRUE, required |-> FALSE], [mirror |-> FALSE, required |-> TRUE] } }

\* DoCustomLoad(url, extension): the fields, and what it throws (Null: nothing).
DoCustomLoad(t, ext) ==
    LET reader == ReaderOf(ToLowerCase(ext)) IN
    IF reader = Null
    THEN [this |-> [t EXCEPT !.extension = Null, !.requestResponseType = Null],
          threw |-> "ErrResourceFormatUnsupported"]
    ELSE [this |-> [t EXCEPT !.extension = ext,
                             !.requestResponseType = ResponseTypeOf(reader)],
          threw |-> Null]

\* list[i] = item for i < items.length: the first places are overwritten, the
\* list grows as needed, what stood further on stays.
Overwrite(list, items) ==
    [i \in 1..Max(Len(list), Len(items)) |-> IF i <= Len(items) THEN items[i] ELSE list[i]]

\* PrepareFromMeshes(meshes): descriptors 1..upTo are taken up; with `throws` the
\* last of them is left half built (its mesh stored, its model not yet).
PrepareFromMeshes(t, d, upTo, throws) ==
    LET descs == MeshesOf(d)
        nModels == IF throws /\ upTo > 0 THEN upTo - 1 ELSE upTo
    IN [t EXCEPT !.meshes = Overwrite(@, [i \in 1..upTo |-> NewMesh(descs[i], TRUE, FALSE)]),
                 !.models = Overwrite(@, [i \in 1..nModels |-> d])]

\* Reader.Prepare(data, this, options) of a structured reader: pushes onto the
\* lists in order; with `throws` it stops after `upTo` meshes.
ReaderPrepare(t, d, upTo, throws, flags) ==
    LET descs == MeshesOf(d) IN
    [t EXCEPT !.meshes = @ \o [i \in 1..upTo |->
                                 NewMesh(descs[i], flags[i].mirror, flags[i].required)],
              !.models = @ \o (IF throws THEN << >> ELSE ModelsOf(d)),
              !.animations = @ \o (IF throws THEN << >> ELSE AnimationsOf(d))]

\* OnPrepared()
OnPrepared(t) == [t EXCEPT !.state = "Prepared"]

\* What Prepare does once the reader has filled the lists.
FinishPrepare(t, mirrorPolicy) ==
    LET r == [RebuildBounds(t, FALSE) EXCEPT !.custom = NoCustom]
    IN OnPrepared(IF ~mirrorPolicy THEN ClearSystemMirrorIfNotRequired(r) ELSE r)

\* Prepare(data, options): the fields, and what it throws (Null: nothing).
Prepare(t, d, upTo, throws, flags, mirrorPolicy) ==
    LET c == Clear(t)
        Reader == ReaderOf(c.extension)
    IN IF Reader = Null
       THEN [this |-> c, threw |-> "ErrResourceFormatUnsupported"]
       ELSE LET filled == IF ByMesh(Reader)
                          THEN PrepareFromMeshes(c, d, upTo, throws)
                          ELSE ReaderPrepare(c, d, upTo, throws, flags)
            IN IF throws
               THEN [this |-> filled, threw |-> "ReaderError"]
               ELSE [this |-> FinishPrepare(filled, mirrorPolicy), threw |-> Null]

\* The structured documents handed to UpdateFromJSON (factory: Null when absent).
JsonDocs ==
    { [data |-> "single", factory |-> Null, options |-> Null],
      [data |-> "single", factory |-> "makeSingle", options |-> "optSingle"],
      [data |-> "pair", factory |-> "makePair", options |-> "optPair"] }

\* json.factory(json.options): the document a recorded factory regenerates.
FactoryCall(factory, options) ==
    [data |-> IF factory = "makePair" THEN "pair" ELSE "single",
     factory |-> factory, options |-> options]

\* The factory/options record kept by UpdateFromJSON.
RecordCustom(t, json) ==
    IF json.factory # Null
    THEN [set |-> TRUE, factory |-> json.factory, options |-> json.options]
    ELSE t.custom

\* UpdateFromJSON(json, extensionOptions)
UpdateFromJSON(t, json, flags) ==
    LET c == [Clear(t) EXCEPT !.extension = "gr2_json", !.isCustom = TRUE]
        n == Len(MeshesOf(json.data))
        r == RebuildBounds(ReaderPrepare(c, json.data, n, FALSE, flags), FALSE)
    IN [r EXCEPT !.custom = RecordCustom(r, json)]

-----------------------------------------------------------------------------
(* Tw2GeometryRes: rendering *)

\* What the effect reports for one pass of the technique: whether the mesh's
\* declaration satisfies the pass input (SetDeclaration's result) and whether the
\* pass input has no elements.
PassKinds ==
    { [binds |-> TRUE, empty |-> FALSE],
      [binds |-> TRUE, empty |-> TRUE],
      [binds |-> FALSE, empty |-> FALSE] }

\* The techniques: effect.GetPassCount(technique) is the length.
Techniques == UNION { [1..n -> PassKinds] : n \in 0..MaxPass }

\* IsGood()
IsGood(t) == t.state = "Prepared"

\* mesh.declaration.SetDeclaration(d, passInput, stride)
SetDeclaration(mesh, passInput) == passInput.binds

\* The early return shared by the three render calls.
RenderRejected(t, meshIx, passCount) ==
    passCount = 0 \/ ~IsGood(t) \/ meshIx >= Len(t.meshes)

\* this.meshes[meshIx] || this.meshes[0]
MeshOrFirst(ms, meshIx) == IF meshIx < Len(ms) THEN ms[meshIx + 1] ELSE ms[1]

\* Mutant of Contiguous: the byte offset compared without the factor 2.
ContiguousUnscaled(area, areaStart, areaCount) == area[1] = areaStart + areaCount

\* The merge test: area.start === areaStart + areaCount * 2
Contiguous(area, areaStart, areaCount) == area[1] = areaStart + areaCount * 2

\* The inner while loop: folds the areas after index i into the run
\* (areaStart, areaCount); missing is the index of an absent area, or -1.
RECURSIVE FoldRun(_, _, _, _, _, _)
FoldRun(areas, start, count, i, areaStart, areaCount) ==
    IF i + 1 < count
    THEN IF i + 1 + start >= Len(areas)
         THEN [i |-> i, start |-> areaStart, count |-> areaCount, missing |-> i + 1 + start]
         ELSE LET area == areas[i + 1 + start + 1] IN
              IF ~Contiguous(area, areaStart, areaCount)
              THEN [i |-> i, start |-> areaStart, count |-> areaCount, missing |-> -1]
              ELSE FoldRun(areas, start, count, i + 1, areaStart, areaCount + area[2])
    ELSE [i |-> i, start |-> areaStart, count |-> areaCount, missing |-> -1]

\* The test guarding the body of the for loop over the requested areas.
FirstAreaPresent(areas, start, i) == i + start < Len(areas)

\* The for loop over the requested areas of one pass: the draws issued, in order,
\* and the index of the absent area that stopped it (-1: none).
RECURSIVE WalkAreas(_, _, _, _, _)
WalkAreas(areas, start, count, i, draws) ==
    IF i >= count THEN [draws |-> draws, missing |-> -1]
    ELSE IF FirstAreaPresent(areas, start, i)
         THEN LET first == areas[i + start + 1]
                  run == FoldRun(areas, start, count, i, first[1], first[2])
              IN IF run.missing >= 0
                 THEN [draws |-> draws, missing |-> run.missing]
                 ELSE WalkAreas(areas, start, count, run.i + 1,
                                Append(draws, <<run.start, run.count>>))
         ELSE WalkAreas(areas, start, count, i + 1, draws)

\* Mutant of BindingFailed: the failure is swallowed and the call reports success.
BindingFailedSilently(events, p, mesh) == [ret |-> "true", events |-> events]

\* The branch taken when SetDeclaration fails: OnError(ErrGeometryMeshEffectBinding
\* {pass, meshStride}) and return false.
BindingFailed(events, p, mesh) ==
    [ret |-> "false",
     events |-> Append(events, Ev("OnError:ErrGeometryMeshEffectBinding", p, mesh.stride, 0))]

DrawEvents(name, pass, draws) ==
    [k \in 1..Len(draws) |-> Ev(name, pass, draws[k][1], draws[k][2])]

\* The pass loop of RenderAreas and RenderLines, from pass p on.
RECURSIVE DirectPasses(_, _, _, _, _, _, _)
DirectPasses(draw, mesh, start, count, passes, p, events) ==
    IF p >= Len(passes) THEN [ret |-> "true", events |-> events]
    ELSE LET applied == Append(events, Ev("ApplyPass", p, 0, 0)) IN
         IF ~SetDeclaration(mesh, passes[p + 1])
         THEN BindingFailed(applied, p, mesh)
         ELSE LET walk == WalkAreas(mesh.areas, start, count, 0, << >>)
                  drawn == Append(applied, Ev("ApplyShadowState", p, 0, 0))
                             \o DrawEvents(draw, p, walk.draws)
              IN IF walk.missing >= 0
                 THEN [ret |-> "false",
                       events |-> Append(drawn,
                                    Ev("OnError:ErrGeometryMeshAreaMissing", p, walk.missing, 0))]
                 ELSE DirectPasses(draw, mesh, start, count, passes, p + 1, drawn)

\* The pass loop of RenderAreasInstanced, from pass p on.
RECURSIVE InstancedPasses(_, _, _, _, _, _)
InstancedPasses(mesh, start, count, passes, p, events) ==
    IF p >= Len(passes) THEN [ret |-> "true", events |-> events]
    ELSE LET applied == Append(events, Ev("ApplyPass", p, 0, 0)) IN
         IF passes[p + 1].empty
         THEN InstancedPasses(mesh, start, count, passes, p + 1, applied)
         ELSE LET walk == WalkAreas(mesh.areas, start, count, 0, << >>)
                  drawn == applied
                             \o << Ev("SetPartialDeclaration:mesh", p, mesh.stride, 0),
                                   Ev("SetPartialDeclaration:instance", p, 0, 1),
                                   Ev("ApplyShadowState", p, 0, 0) >>
                             \o DrawEvents("drawElementsInstanced:TRIANGLES", p, walk.draws)
              IN IF walk.missing >= 0
                 THEN [ret |-> "false",
                       events |-> Append(drawn,
                                    Ev("OnError:ErrGeometryMeshAreaMissing", p, walk.missing, 0))]
                 ELSE InstancedPasses(mesh, start, count, passes, p + 1,
                                      Append(drawn, Ev("ResetInstanceDivisors", p, 0, 0)))

KeptAlive == << Ev("KeepAlive", 0, 0, 0) >>

\* RenderAreas(meshIx, start, count, effect, technique)
RenderAreas(t, meshIx, start, count, passes) ==
    IF RenderRejected(t, meshIx, Len(passes))
    THEN [ret |-> "false", events |-> KeptAlive]
    ELSE DirectPasses("drawElements:TRIANGLES", MeshOrFirst(t.meshes, meshIx),
                      start, count, passes, 0, KeptAlive)

\* RenderLines(meshIx, start, count, effect, technique)
RenderLines(t, meshIx, start, count, passes) ==
    IF RenderRejected(t, meshIx, Len(passes))
    THEN [ret |-> "false", events |-> KeptAlive]
    ELSE DirectPasses("drawElements:LINES", t.meshes[meshIx + 1],
                      start, count, passes, 0, KeptAlive)

\* RenderAreasInstanced(meshIx, start, count, effect, technique, instanceVB, ...)
RenderAreasInstanced(t, meshIx, start, count, passes) ==
    IF RenderRejected(t, meshIx, Len(passes))
    THEN [ret |-> "false", events |-> KeptAlive]
    ELSE InstancedPasses(t.meshes[meshIx + 1], start, count, passes, 0, KeptAlive)

-----------------------------------------------------------------------------
(* Tw2GeometryRes: SetSystemMirror *)

\* Mutant of ReloadRequired: a required mirror forces a reload only while disabling.
ReloadRequiredWhenDisabling(ms, enable) ==
    \E i \in 1..Len(ms) :
        (~HasSystemMirror(ms[i]) /\ enable) \/ (IsSystemMirrorRequired(ms[i]) /\ ~enable)

\* The loop of SetSystemMirror that decides reloadRequired.
ReloadRequired(ms, enable) ==
    \E i \in 1..Len(ms) :
        (~HasSystemMirror(ms[i]) /\ enable) \/ IsSystemMirrorRequired(ms[i])

\* The tail of SetSystemMirror, after the reload if there was one.
AfterReload(t, enable) == IF ~enable THEN ClearSystemMirrorIfNotRequired(t) ELSE t

\* Whether SetSystemMirror suspends on the resource manager (await new Promise).
Suspends(t, enable) == ReloadRequired(t.meshes, enable) /\ ~t.custom.set

\* SetSystemMirror(enable), up to its return or its suspension.
SetSystemMirror(t, enable, flags) ==
    IF ReloadRequired(t.meshes, enable)
    THEN IF t.custom.set
         THEN [this |-> AfterReload(
                          UpdateFromJSON(t, FactoryCall(t.custom.factory, t.custom.options),
                                         flags), enable),
               ret |-> "true",
               events |-> << Ev("factory", 0, 0, 0) >>]
         ELSE [this |-> t,
               ret |-> "pending",
               events |-> << Ev("RegisterCallbacks", 0, 0, 0), Ev("LoadResource", 0, 0, 0) >>]
    ELSE [this |-> AfterReload(t, enable), ret |-> "false", events |-> << >>]

\* ForceSystemMirror(bool)
ForceSystemMirror(t, bool, flags) ==
    SetSystemMirror([t EXCEPT !.requiresSystemMirror = bool], bool, flags)

\* The mirror state of each mesh, as a call finds it.
MirrorsOf(ms) == [i \in 1..Len(ms) |-> [mirror |-> ms[i].mirror, required |-> ms[i].required]]

-----------------------------------------------------------------------------
(* Initial state: new Tw2GeometryRes() *)

Init ==
    /\ meshes = << >>
    /\ models = << >>
    /\ animations = << >>
    /\ minBounds = 0
    /\ maxBounds = 0
    /\ boundsSpherePosition = 0
    /\ boundsSphereRadius = 0
    /\ isCustom = FALSE
    /\ requiresSystemMirror = FALSE
    /\ requestResponseType = Null
    /\ extension = Null
    /\ boundsDirty = TRUE
    /\ custom = NoCustom
    /\ state = "NoInit"
    /\ systemMirrorEnabled = FALSE
    /\ pending = << >>
    /\ last = Did("new", NoArg, Null, << >>)

-----------------------------------------------------------------------------
(* Actions: one per call on the resource *)

\* Reader flags that keep every CPU copy and pin none.
PlainFlags == [i \in 1..2 |-> [mirror |-> TRUE, required |-> FALSE]]

DoCustomLoadAct(E) ==
    \E ext \in E :
        LET r == DoCustomLoad(This, ext) IN
        /\ Becomes(r.this)
        /\ last' = Did("DoCustomLoad", [extension |-> ext], r.threw, << >>)
        /\ UNCHANGED <<systemMirrorEnabled, pending>>

\* Prepare as the resource manager calls it; a throw leaves the resource in Error.
PrepareAct(D, F, T) ==
    \E d \in D, flags \in F, throws \in T :
      \E upTo \in 0..Len(MeshesOf(d)) :
        /\ ~throws => upTo = Len(MeshesOf(d))
        /\ LET r == Prepare(This, d, upTo, throws, flags, systemMirrorEnabled) IN
           /\ Becomes(IF r.threw = Null THEN r.this ELSE [r.this EXCEPT !.state = "Error"])
           /\ last' = Did("Prepare", [data |-> d, had |-> Len(meshes)],
                          IF r.threw = Null THEN "ok" ELSE r.threw, << >>)
        /\ UNCHANGED <<systemMirrorEnabled, pending>>

UpdateFromJSONAct(F) ==
    \E json \in JsonDocs, flags \in F :
        /\ Becomes(UpdateFromJSON(This, json, flags))
        /\ last' = Did("UpdateFromJSON", [json |-> json], "ok", << >>)
        /\ UNCHANGED <<systemMirrorEnabled, pending>>

ClearAct ==
    /\ Becomes(Clear(This))
    /\ last' = Did("Clear", NoArg, "ok", << >>)
    /\ UNCHANGED <<systemMirrorEnabled, pending>>

RebuildBoundsAct ==
    \E force \in BOOLEAN :
        /\ Becomes(RebuildBounds(This, force))
        /\ last' = Did("RebuildBounds",
                       [force |-> force, previous |-> last.op,
                        flag |-> boundsDirty, meshFlag |-> AnyMeshDirty(meshes)],
                       "ok", << >>)
        /\ UNCHANGED <<systemMirrorEnabled, pending>>

GetBoundingBoxAct ==
    \E force \in BOOLEAN :
        LET t == RebuildBounds(This, force) IN
        /\ Becomes(t)
        /\ last' = Did("GetBoundingBox", [force |-> force],
                       <<t.minBounds, t.maxBounds>>, << Ev("RebuildBounds", 0, 0, 0) >>)
        /\ UNCHANGED <<systemMirrorEnabled, pending>>

GetBoundingSphereAct ==
    \E force \in BOOLEAN :
        LET t == RebuildBounds(This, force) IN
        /\ Becomes(t)
        /\ last' = Did("GetBoundingSphere", [force |-> force],
                       <<t.boundsSpherePosition, t.boundsSphereRadius>>,
                       << Ev("RebuildBounds", 0, 0, 0) >>)
        /\ UNCHANGED <<systemMirrorEnabled, pending>>

\* Intersect(ray, intersects, worldTransform, cache, meshIndex): `hit` is
\* ray.IntersectBounds of the rebuilt box.
IntersectAct ==
    \E hit \in BOOLEAN, meshIndex \in 0..2 :
        LET t == RebuildBounds(This, FALSE) IN
        /\ Becomes(t)
        /\ last' = Did("Intersect", [meshIndex |-> meshIndex, hit |-> hit],
                       IF hit /\ meshIndex < Len(t.meshes) THEN "hits" ELSE "none",
                       << Ev("RebuildBounds", 0, 0, 0), Ev("IntersectBounds", 0, 0, 0) >>
                         \o (IF hit /\ meshIndex < Len(t.meshes)
                             THEN << Ev("mesh.Intersect", meshIndex, 0, 0) >> ELSE << >>))
        /\ UNCHANGED <<systemMirrorEnabled, pending>>

\* New geometry written into one mesh: the mesh marks its own bounds dirty.
MeshMutateAct ==
    \E i \in 1..Len(meshes) :
        LET g == meshes[i].geom
            grown == IF g[2] - g[1] = 2 THEN <<g[1], g[2] + 1>> ELSE <<g[1], g[2] - 1>>
        IN
        /\ meshes' = [meshes EXCEPT ![i] = [@ EXCEPT !.geom = grown, !.dirty = TRUE]]
        /\ last' = Did("mesh.mutate", [mesh |-> i], "ok", << >>)
        /\ UNCHANGED <<models, animations, minBounds, maxBounds, boundsSpherePosition,
                       boundsSphereRadius, isCustom, requiresSystemMirror,
                       requestResponseType, extension, boundsDirty, custom, state,
                       systemMirrorEnabled, pending>>

RenderCalls == {"RenderAreas", "RenderLines", "RenderAreasInstanced"}

\* A render call writes no field of the resource, so a second one in a row starts
\* from the same resource as the first: the model takes each render call right
\* after a call that is not one, which reaches the same calls on the same resources.
NotJustRendered == last.op \notin RenderCalls

RenderArg(meshIx, start, count, passes) ==
    [meshIx |-> meshIx, start |-> start, count |-> count, passes |-> passes]

RenderAreasAct ==
    \E meshIx \in 0..2, start \in 0..MaxStart, count \in 0..MaxCount, passes \in Techniques :
        LET r == RenderAreas(This, meshIx, start, count, passes) IN
        /\ NotJustRendered
        /\ last' = Did("RenderAreas", RenderArg(meshIx, start, count, passes), r.ret, r.events)
        /\ UNCHANGED <<meshes, models, animations, minBounds, maxBounds,
                       boundsSpherePosition, boundsSphereRadius, isCustom,
                       requiresSystemMirror, requestResponseType, extension, boundsDirty,
                       custom, state, systemMirrorEnabled, pending>>

RenderLinesAct ==
    \E meshIx \in 0..2, start \in 0..MaxStart, count \in 0..MaxCount, passes \in Techniques :
        LET r == RenderLines(This, meshIx, start, count, passes) IN
        /\ NotJustRendered
        /\ last' = Did("RenderLines", RenderArg(meshIx, start, count, passes), r.ret, r.events)
        /\ UNCHANGED <<meshes, models, animations, minBounds, maxBounds,
                       boundsSpherePosition, boundsSphereRadius, isCustom,
                       requiresSystemMirror, requestResponseType, extension, boundsDirty,
                       custom, state, systemMirrorEnabled, pending>>

RenderAreasInstancedAct ==
    \E meshIx \in 0..2, start \in 0..MaxStart, count \in 0..MaxCount, passes \in Techniques :
        LET r == RenderAreasInstanced(This, meshIx, start, count, passes) IN
        /\ NotJustRendered
        /\ last' = Did("RenderAreasInstanced", RenderArg(meshIx, start, count, passes),
                       r.ret, r.events)
        /\ UNCHANGED <<meshes, models, animations, minBounds, maxBounds,
                       boundsSpherePosition, boundsSphereRadius, isCustom,
                       requiresSystemMirror, requestResponseType, extension, boundsDirty,
                       custom, state, systemMirrorEnabled, pending>>

MirrorArg(enable) == [enable |-> enable, before |-> MirrorsOf(meshes)]

\* SetSystemMirror(enable), up to its return or its suspension on the reload.
SetSystemMirrorAct(F) ==
    \E enable \in BOOLEAN, flags \in F :
        LET r == SetSystemMirror(This, enable, flags) IN
        /\ Suspends(This, enable) => Len(pending) < MaxPending
        /\ Becomes(r.this)
        /\ pending' = IF r.ret = "pending" THEN Append(pending, enable) ELSE pending
        /\ last' = Did("SetSystemMirror", MirrorArg(enable), r.ret, r.events)
        /\ UNCHANGED systemMirrorEnabled

\* ForceSystemMirror(bool), up to its return or its suspension on the reload.
ForceSystemMirrorAct(F) ==
    \E bool \in BOOLEAN, flags \in F :
        LET r == ForceSystemMirror(This, bool, flags) IN
        /\ Suspends(This, bool) => Len(pending) < MaxPending
        /\ Becomes(r.this)
        /\ pending' = IF r.ret = "pending" THEN Append(pending, bool) ELSE pending
        /\ last' = Did("ForceSystemMirror", MirrorArg(bool), r.ret, r.events)
        /\ UNCHANGED systemMirrorEnabled

\* The resource manager finishes a reload: it has run Prepare on the fetched data
\* and calls onResolved; the suspended SetSystemMirror runs its tail and resolves
\* true.
ReloadResolvedAct(D, F) ==
    \E d \in D, flags \in F :
        LET r == Prepare(This, d, Len(MeshesOf(d)), FALSE, flags, systemMirrorEnabled) IN
        /\ pending # << >>
        /\ r.threw = Null
        /\ Becomes(AfterReload(r.this, Head(pending)))
        /\ pending' = Tail(pending)
        /\ last' = Did("SetSystemMirror:resumed", [enable |-> Head(pending)], "true", << >>)
        /\ UNCHANGED systemMirrorEnabled

\* The resource manager fails a reload (Prepare threw) and calls onRejected: the
\* suspended SetSystemMirror rejects without running its tail.
ReloadRejectedAct(D) ==
    \E d \in D :
      \E upTo \in 0..Len(MeshesOf(d)) :
        LET r == Prepare(This, d, upTo, TRUE, PlainFlags, systemMirrorEnabled) IN
        /\ pending # << >>
        /\ Becomes([r.this EXCEPT !.state = "Error"])
        /\ pending' = Tail(pending)
        /\ last' = Did("SetSystemMirror:resumed", [enable |-> Head(pending)], "rejected", << >>)
        /\ UNCHANGED systemMirrorEnabled

\* The resource manager's system-wide mirror policy is switched.
SetMirrorPolicyAct ==
    /\ systemMirrorEnabled' = ~systemMirrorEnabled
    /\ last' = Did("resMan.policy", NoArg, "ok", << >>)
    /\ UNCHANGED <<meshes, models, animations, minBounds, maxBounds, boundsSpherePosition,
                   boundsSphereRadius, isCustom, requiresSystemMirror, requestResponseType,
                   extension, boundsDirty, custom, state, pending>>

-----------------------------------------------------------------------------
(* Specifications *)

\* Loading and bounds.
Next ==
    \/ DoCustomLoadAct(Extensions)
    \/ PrepareAct(DataSet, {PlainFlags}, BOOLEAN)
    \/ UpdateFromJSONAct({PlainFlags})
    \/ ClearAct
    \/ RebuildBoundsAct
    \/ GetBoundingBoxAct
    \/ GetBoundingSphereAct
    \/ IntersectAct
    \/ MeshMutateAct

Spec == Init /\ [][Next]_vars

\* Rendering and queries on a loaded resource.
NextRender ==
    \/ DoCustomLoadAct({"obj", "xyz"})
    \/ PrepareAct(DataSet, {PlainFlags}, {FALSE})
    \/ RenderAreasAct
    \/ RenderLinesAct
    \/ RenderAreasInstancedAct

SpecRender == Init /\ [][NextRender]_vars

\* The system mirror: loads, reloads and the mirror policy.
NextMirror ==
    \/ DoCustomLoadAct({"wbg"})
    \/ PrepareAct({"pair"}, MirrorFlagSeqs, {FALSE})
    \/ UpdateFromJSONAct(MirrorFlagSeqs)
    \/ SetSystemMirrorAct({PlainFlags})
    \/ ForceSystemMirrorAct({PlainFlags})
    \/ ReloadResolvedAct({"pair"}, MirrorFlagSeqs)
    \/ ReloadRejectedAct({"pair"})
    \/ SetMirrorPolicyAct

SpecMirror == Init /\ [][NextMirror]_vars

-----------------------------------------------------------------------------
(* Rendering claims *)

DrawNames ==
    {"drawElements:TRIANGLES", "drawElements:LINES", "drawElementsInstanced:TRIANGLES"}

\* The (start, count) of the draw submissions of pass p, in the order issued.
DrawsOfPass(events, p) ==
    LET sel == SelectSeq(events, LAMBDA ev : ev.e \in DrawNames /\ ev.a = p)
    IN [k \in 1..Len(sel) |-> <<sel[k].b, sel[k].c>>]

\* Sum of the counts of areas[from..to].
RECURSIVE SumCounts(_, _, _)
SumCounts(areas, from, to) ==
    IF from > to THEN 0 ELSE areas[from][2] + SumCounts(areas, from + 1, to)

\* With B the requested positions (after the first) that open a new run: the
\* position that opens the run holding position k.
RunOpener(B, k) ==
    CHOOSE b \in B \cup {0} : b <= k /\ \A c \in B \cup {0} : c <= k => c <= b

\* Requested position k continues the run of position k - 1: its start is the
\* run's first start plus twice the counts accumulated in the run.
JoinsRun(areas, start, B, k) ==
    LET o == RunOpener(B, k - 1) IN
    areas[start + k + 1][1] = areas[start + o + 1][1] + 2 * SumCounts(areas, start + o + 1, start + k)

\* The maximal runs of the requested areas, as (first start, summed count).
MergedRuns(areas, start, count) ==
    IF count = 0 THEN << >>
    ELSE LET B == CHOOSE X \in SUBSET (1..(count - 1)) :
                      \A k \in 1..(count - 1) : (k \in X) <=> ~JoinsRun(areas, start, X, k)
             S == B \cup {0}
             Nth(j) == CHOOSE b \in S : Cardinality({c \in S : c < b}) = j - 1
             EndOf(b) == IF \E c \in S : c > b
                         THEN (CHOOSE c \in S : c > b /\ \A e \in S : e > b => c <= e) - 1
                         ELSE count - 1
         IN [j \in 1..Cardinality(S) |->
               <<areas[start + Nth(j) + 1][1],
                 SumCounts(areas, start + Nth(j) + 1, start + EndOf(Nth(j)) + 1)>>]

\* The last call was a render call that got past its early return.
Rendered(ops) ==
    /\ last.op \in ops
    /\ ~RenderRejected(This, last.arg.meshIx, Len(last.arg.passes))

RenderedMesh == meshes[last.arg.meshIx + 1]

AreasAllExist == last.arg.start + last.arg.count <= Len(RenderedMesh.areas)

AllPassesBind == \A q \in 1..Len(last.arg.passes) : last.arg.passes[q].binds

PassIndexes == 0..(Len(last.arg.passes) - 1)

\* Pass p gets as far as the walk over the requested areas.
WalksAreas(p) ==
    IF last.op = "RenderAreasInstanced"
    THEN ~last.arg.passes[p + 1].empty
    ELSE \A q \in 0..p : last.arg.passes[q + 1].binds

\* C1 (as amended): on a ready resource whose requested areas all exist, each
\* pass that reaches the area walk (its input binds; on the instanced path its
\* pass input has elements) issues exactly one draw per maximal run of
\* consecutive requested areas, starting at the run's first start and covering
\* the sum of the run's counts, and a pass that does not reach it issues none.
\* With areas (0,10),(20,5),(30,8),(100,4): areas 0..2 give one draw (0, 23),
\* all four give (0, 23) and (100, 4).
C1_MergedDraws ==
    (Rendered(RenderCalls) /\ AreasAllExist) =>
        \A p \in PassIndexes :
            /\ DrawsOfPass(last.events, p) =
                 IF WalksAreas(p)
                 THEN MergedRuns(RenderedMesh.areas, last.arg.start, last.arg.count)
                 ELSE << >>
            /\ (WalksAreas(p) /\ RenderedMesh.areas = AreasExample /\ last.arg.start = 0) =>
                 /\ last.arg.count = 3 => DrawsOfPass(last.events, p) = << <<0, 23>> >>
                 /\ last.arg.count = 4 =>
                      DrawsOfPass(last.events, p) = << <<0, 23>>, <<100, 4>> >>

\* C1 witness: all four example areas rendered instanced in two passes, each
\* issuing the merged draw and the separate one.
C1_Witness ==
    /\ Rendered({"RenderAreasInstanced"})
    /\ RenderedMesh.areas = AreasExample
    /\ last.arg.start = 0 /\ last.arg.count = 4
    /\ Len(last.arg.passes) = 2
    /\ \A p \in PassIndexes :
         DrawsOfPass(last.events, p) = << <<0, 23>>, <<100, 4>> >>

\* C1 as claimed: every pass of the technique issues the merged draws (stated for
\* techniques whose passes all bind).
C1_EveryPassDraws ==
    (Rendered(RenderCalls) /\ AreasAllExist /\ AllPassesBind) =>
        \A p \in PassIndexes :
            DrawsOfPass(last.events, p) =
                MergedRuns(RenderedMesh.areas, last.arg.start, last.arg.count)

HasEvent(name) == \E k \in 1..Len(last.events) : last.events[k].e = name

\* C2 as claimed: a requested range holding an index with no area (the first
\* position included) makes the call report ErrGeometryMeshAreaMissing and return
\* false (stated for techniques whose passes all bind and have input elements).
C2_MissingAreaFails ==
    (/\ Rendered(RenderCalls)
     /\ AllPassesBind
     /\ \A q \in 1..Len(last.arg.passes) : ~last.arg.passes[q].empty
     /\ last.arg.count > 0
     /\ ~AreasAllExist) =>
        /\ last.ret = "false"
        /\ HasEvent("OnError:ErrGeometryMeshAreaMissing")

\* C6 as claimed: RenderAreas with an out-of-range mesh index renders mesh 0 and
\* returns true.
C6_OutOfRangeUsesMeshZero ==
    (/\ last.op = "RenderAreas"
     /\ IsGood(This)
     /\ Len(meshes) >= 1
     /\ Len(last.arg.passes) > 0
     /\ last.arg.meshIx >= Len(meshes)
     /\ AllPassesBind
     /\ last.arg.start + last.arg.count <= Len(meshes[1].areas)) =>
        /\ last.ret = "true"
        /\ \A p \in PassIndexes :
             DrawsOfPass(last.events, p) =
                 MergedRuns(meshes[1].areas, last.arg.start, last.arg.count)

\* Pass p was applied and the mesh's declaration does not satisfy its input.
BindingFails(p) ==
    /\ \E k \in 1..Len(last.events) : last.events[k] = Ev("ApplyPass", p, 0, 0)
    /\ ~last.arg.passes[p + 1].binds

\* What C7 asks of a call whose pass p fails to bind.
AbortsAtPass(p) ==
    /\ \E k \in 1..Len(last.events) :
         last.events[k] = Ev("OnError:ErrGeometryMeshEffectBinding", p, RenderedMesh.stride, 0)
    /\ last.ret = "false"
    /\ \A q \in PassIndexes : q >= p => DrawsOfPass(last.events, q) = << >>

\* C7 (as amended): in RenderAreas and RenderLines, when the input of pass p
\* cannot be bound, the call reports ErrGeometryMeshEffectBinding with the pass
\* and the mesh stride, issues no draw for pass p or a later pass, and returns
\* false.  RenderAreasInstanced binds partial declarations and never reports
\* ErrGeometryMeshEffectBinding.
C7_BindingFailureAborts ==
    /\ Rendered({"RenderAreas", "RenderLines"}) =>
         \A p \in PassIndexes : BindingFails(p) => AbortsAtPass(p)
    /\ last.op = "RenderAreasInstanced" => ~HasEvent("OnError:ErrGeometryMeshEffectBinding")

\* C7 witness: RenderLines whose second pass fails to bind, after the first
\* pass has drawn.
C7_Witness ==
    /\ Rendered({"RenderLines"})
    /\ Len(last.arg.passes) = 2
    /\ BindingFails(1) /\ AbortsAtPass(1)
    /\ DrawsOfPass(last.events, 0) # << >>

\* C7 as claimed: the same for all three render calls.
C7_AllThreeAbort ==
    Rendered(RenderCalls) =>
        \A p \in PassIndexes : BindingFails(p) => AbortsAtPass(p)

-----------------------------------------------------------------------------
(* System-mirror claims *)

\* C3 as claimed: at most one reload of the resource is outstanding at any time.
C3_OneReloadOutstanding == Len(pending) <= 1

MirrorCalls == {"SetSystemMirror", "ForceSystemMirror"}

\* The call triggered a reload: the custom factory was called or LoadResource issued.
Reloaded == HasEvent("factory") \/ HasEvent("LoadResource")

\* The call returned false, or true (at once after the factory, or once the
\* suspended reload resolves).
Resolves(reload) ==
    IF reload THEN last.ret \in {"true", "pending"} ELSE last.ret = "false"

\* reloadRequired as the code computes it, on the meshes as the call found them.
NeedsReload ==
    \E i \in 1..Len(last.arg.before) :
        \/ ~last.arg.before[i].mirror /\ last.arg.enable
        \/ last.arg.before[i].required

\* reloadRequired as C8 states it.
ClaimedReload ==
    \/ last.arg.enable /\ \E i \in 1..Len(last.arg.before) : ~last.arg.before[i].mirror
    \/ ~last.arg.enable /\ \E i \in 1..Len(last.arg.before) :
                              /\ last.arg.before[i].mirror
                              /\ ~last.arg.before[i].required
                              /\ ~requiresSystemMirror

\* C8 (as amended): SetSystemMirror(enable) triggers a reload, and resolves true
\* once the reload has completed, exactly when some mesh has no system mirror
\* while enable is true, or some mesh reports IsSystemMirrorRequired() (whatever
\* enable is); in every other case it triggers no reload (no factory call, no
\* LoadResource) and resolves false.
C8_ReloadExactlyWhenRequired ==
    last.op \in MirrorCalls =>
        /\ Reloaded <=> NeedsReload
        /\ Resolves(NeedsReload)
        /\ last.ret = "pending" <=> HasEvent("LoadResource")

\* C8 witness: a call with enable = true on meshes that all have a mirror, one of
\* them pinned: the reload is issued although no mesh lacks a mirror.
C8_Witness ==
    /\ last.op = "SetSystemMirror"
    /\ last.arg.enable
    /\ Len(last.arg.before) > 0
    /\ \A i \in 1..Len(last.arg.before) : last.arg.before[i].mirror
    /\ Reloaded
    /\ NeedsReload

\* C8 as claimed: reload exactly when (enable and some mesh has no mirror) or
\* (not enable and some mesh has a mirror that is no longer required); stated for
\* the calls that find every pinned mesh holding its mirror.
C8_ReloadAsClaimed ==
    (/\ last.op = "SetSystemMirror"
     /\ \A i \in 1..Len(last.arg.before) :
            last.arg.before[i].required => last.arg.before[i].mirror) =>
        /\ Reloaded <=> ClaimedReload
        /\ Resolves(ClaimedReload)

\* C9 as claimed: after a successful Prepare with the mirror policy off and the
\* resource's mirror not pinned, every mesh has had ClearSystemMirrorIfNotRequired
\* applied (no mesh keeps a mirror it does not require).
C9_PrepareReleasesMirrors ==
    (/\ last.op = "Prepare" /\ last.ret = "ok"
     /\ ~systemMirrorEnabled
     /\ ~requiresSystemMirror) =>
        \A i \in 1..Len(meshes) : meshes[i].required \/ ~meshes[i].mirror

-----------------------------------------------------------------------------
(* Loading and bounds claims *)

\* C4 as claimed: with the resource's flag clear and no mesh dirty, the bounds
\* are the union of the meshes' boxes (the empty-bounds sentinel without meshes);
\* and Clear leaves the resource where the next non-forced read recomputes.
C4_BoundsReflectMeshes ==
    /\ (~boundsDirty /\ ~AnyMeshDirty(meshes)) =>
          IF meshes = << >>
          THEN minBounds = BoxInf /\ maxBounds = -BoxInf
          ELSE /\ \E i \in 1..Len(meshes) : minBounds = meshes[i].geom[1]
               /\ \A i \in 1..Len(meshes) : minBounds <= meshes[i].geom[1]
               /\ \E i \in 1..Len(meshes) : maxBounds = meshes[i].geom[2]
               /\ \A i \in 1..Len(meshes) : maxBounds >= meshes[i].geom[2]
    /\ last.op = "Clear" => (boundsDirty \/ AnyMeshDirty(meshes))

\* C5 as claimed: a Prepare that fails leaves meshes, models and animations as
\* they were before the call.
C5_FailedPrepareKeepsGeometry ==
    [][(last'.op = "Prepare" /\ last'.ret # "ok") =>
          (meshes' = meshes /\ models' = models /\ animations' = animations)]_vars

EntryPoints ==
    {"RenderAreas", "RenderAreasInstanced", "RenderLines",
     "Intersect", "GetBoundingBox", "GetBoundingSphere"}

\* C10 as claimed: every public render/query entry point calls KeepAlive before
\* any other effect.
C10_KeepAliveFirst ==
    last.op \in EntryPoints =>
        /\ last.events # << >>
        /\ last.events[1].e = "KeepAlive"

-----------------------------------------------------------------------------
(* Custom factory claims *)

\* C11 as claimed: after UpdateFromJSON(doc) the recorded factory/options are
\* those of doc; when doc carries no factory, none recorded by an earlier call
\* is left for a later reload to use.
C11_RecordedFactoryIsTheDocuments ==
    last.op = "UpdateFromJSON" =>
        IF last.arg.json.factory = Null
        THEN ~custom.set
        ELSE /\ custom.set
             /\ custom.factory = last.arg.json.factory
             /\ custom.options = last.arg.json.options

-----------------------------------------------------------------------------
(* Tw2GeometryRes.ReadVertexBuffer (static): the vertex decoder *)

\* Most elements of one vertex declaration.
MaxDecl == 2
\* Largest vertex count of one vertex block.
MaxVertex == 2

\* An encoding byte: low nibble = numeric kind, bit 4 = normalize, bits 5..7 =
\* component count - 1.
FileType(nibble, normalize, components) ==
    nibble + (IF normalize THEN 16 ELSE 0) + 32 * (components - 1)

\* The encoding bytes fed to the decoder: every supported kind, plain and with
\* the normalize bit, some with two components, and kinds outside the table.
FileTypes ==
    { FileType(n, b, 1) : n \in {0, 1, 8, 9}, b \in BOOLEAN }
    \cup { FileType(n, FALSE, 1) : n \in {2, 3, 4, 10} }
    \cup { FileType(4, FALSE, 2), FileType(0, TRUE, 2) }
    \cup { FileType(5, FALSE, 1), FileType(15, TRUE, 2) }

\* A decoder that takes bits 5..7 as the component count itself.
ElementCountZeroBased(fileType) == fileType \div 32

\* el.fileType & 0xf, el.fileType & 0x10, (el.fileType >> 5) + 1
LowNibble(fileType) == fileType % 16
NormalizeBit(fileType) == (fileType \div 16) % 2 = 1
ElementCount(fileType) == (fileType \div 32) + 1

\* The byte at offset p of the vertex data of the stream that starts with `seed`.
ByteAt(seed, p) == (seed + p) % 256

SignedByte(b) == IF b >= 128 THEN b - 256 ELSE b

\* Tw2BinaryReader.Read*: the method, its width in bytes, and the integer it
\* returns at offset p (den 0: a float or unsigned 32-bit value, kept as bits).
ReaderRead(method, seed, p) ==
    LET b0 == ByteAt(seed, p)
        b1 == ByteAt(seed, p + 1)
        b2 == ByteAt(seed, p + 2)
        b3 == ByteAt(seed, p + 3)
    IN CASE method = "ReadInt8" ->
              [width |-> 1, bits |-> <<b0>>, num |-> SignedByte(b0), den |-> 1]
         [] method = "ReadUInt8" ->
              [width |-> 1, bits |-> <<b0>>, num |-> b0, den |-> 1]
         [] method = "ReadInt16" ->
              [width |-> 2, bits |-> <<b0, b1>>,
               num |-> b0 + 256 * SignedByte(b1), den |-> 1]
         [] method = "ReadUInt16" ->
              [width |-> 2, bits |-> <<b0, b1>>, num |-> b0 + 256 * b1, den |-> 1]
         [] method = "ReadInt32" ->
              [width |-> 4, bits |-> <<b0, b1, b2, b3>>,
               num |-> b0 + 256 * b1 + 65536 * b2 + 16777216 * SignedByte(b3),
               den |-> 1]
         [] method = "ReadFloat16" ->
              [width |-> 2, bits |-> <<b0, b1>>, num |-> 0, den |-> 0]
         [] OTHER ->
              [width |-> 4, bits |-> <<b0, b1, b2, b3>>, num |-> 0, den |-> 0]

\* The switch on el.fileType & 0xf: the reader method called for one component
\* and the divisor applied to what it returns (Null: the default branch).
ScalarRead(fileType) ==
    LET n == LowNibble(fileType)
        norm == NormalizeBit(fileType)
    IN CASE n = 0 -> [method |-> "ReadInt8", div |-> IF norm THEN 127 ELSE 1]
         [] n = 1 -> IF norm THEN [method |-> "ReadInt8", div |-> 32767]
                             ELSE [method |-> "ReadInt16", div |-> 1]
         [] n = 2 -> [method |-> "ReadInt32", div |-> 1]
         [] n = 3 -> [method |-> "ReadFloat16", div |-> 1]
         [] n = 4 -> [method |-> "ReadFloat32", div |-> 1]
         [] n = 8 -> [method |-> "ReadUInt8", div |-> IF norm THEN 255 ELSE 1]
         [] n = 9 -> IF norm THEN [method |-> "ReadUInt8", div |-> 65535]
                             ELSE [method |-> "ReadUInt16", div |-> 1]
         [] n = 10 -> [method |-> "ReadUInt32", div |-> 1]
         [] OTHER -> [method |-> Null, div |-> 1]

\* buffer[index++] = reader.Read*() / div : one decoded component.
DecodeScalar(fileType, seed, p) ==
    LET how == ScalarRead(fileType)
        r == ReaderRead(how.method, seed, p)
    IN [read |-> how.method, at |-> p, width |-> r.width, bits |-> r.bits,
        num |-> r.num, den |-> r.den * how.div]

\* The header loop: element i gets elements = (fileType >> 5) + 1 and
\* offset = vertexSize * 4, vertexSize being the components before it.
RECURSIVE VertexSize(_, _)
VertexSize(types, n) ==
    IF n = 0 THEN 0 ELSE VertexSize(types, n - 1) + ElementCount(types[n])

DeclarationOf(types) ==
    [elements |-> [i \in 1..Len(types) |->
                      [fileType |-> types[i],
                       type |-> "FLOAT",
                       elements |-> ElementCount(types[i]),
                       offset |-> VertexSize(types, i - 1) * 4]],
     stride |-> VertexSize(types, Len(types)) * 4]

\* for (let i = 0; i < el.elements; ++i) buffer[index++] = ... : the first i
\* components of one element of one vertex.
RECURSIVE DecodeComponents(_, _, _, _)
DecodeComponents(d, fileType, seed, i) ==
    IF i = 0 THEN d
    ELSE LET sofar == DecodeComponents(d, fileType, seed, i - 1)
             x == DecodeScalar(fileType, seed, sofar.pos)
         IN [sofar EXCEPT !.buffer = Append(@, x), !.pos = @ + x.width]

\* for (declIx < declCount) switch (el.fileType & 0xf): the first n elements of
\* one vertex; the default branch throws with value el.fileType & 0xf.
RECURSIVE DecodeElements(_, _, _, _)
DecodeElements(d, types, seed, n) ==
    IF n = 0 THEN d
    ELSE LET sofar == DecodeElements(d, types, seed, n - 1) IN
         IF sofar.threw THEN sofar
         ELSE IF ScalarRead(types[n]).method = Null
              THEN [sofar EXCEPT !.threw = TRUE, !.value = LowNibble(types[n])]
              ELSE DecodeComponents(sofar, types[n], seed, ElementCount(types[n]))

\* for (vtxIx < vertexCount): the first v vertices.
RECURSIVE DecodeVertices(_, _, _, _)
DecodeVertices(d, types, seed, v) ==
    IF v = 0 THEN d
    ELSE LET sofar == DecodeVertices(d, types, seed, v - 1) IN
         IF sofar.threw THEN sofar
         ELSE DecodeElements(sofar, types, seed, Len(types))

\* ReadVertexBuffer(reader, declaration, path): what it returns or throws, the
\* declaration it fills in, and the bytes of vertex data it consumed.
ReadVertexBuffer(types, vertexCount, seed) ==
    LET decl == DeclarationOf(types)
        d == DecodeVertices([buffer |-> << >>, pos |-> 0, threw |-> FALSE, value |-> 0],
                            types, seed, vertexCount)
    IN IF vertexCount = 0
       THEN [ret |-> "null", buffer |-> << >>, value |-> 0, consumed |-> 0,
             declaration |-> decl]
       ELSE IF d.threw
            THEN [ret |-> "ErrGeometryFileType", buffer |-> << >>, value |-> d.value,
                  consumed |-> d.pos, declaration |-> decl]
            ELSE [ret |-> "buffer", buffer |-> d.buffer, value |-> 0,
                  consumed |-> d.pos, declaration |-> decl]

\* The element lists a vertex block can declare.
Declarations == UNION { [1..n -> FileTypes] : n \in 0..MaxDecl }

\* The vertex blocks fed to the decoder: every declaration and vertex count over
\* two streams, and every one-element block of one vertex over every first byte.
DecodeInputs ==
    { [types |-> t, count |-> c, seed |-> b] :
        t \in Declarations, c \in 0..MaxVertex, b \in {0, 127} }
    \cup { [types |-> <<f>>, count |-> 1, seed |-> b] : f \in FileTypes, b \in 0..255 }

\* A new resource and a reader positioned at a vertex block.
InitDecode ==
    /\ meshes = << >>
    /\ models = << >>
    /\ animations = << >>
    /\ minBounds = 0
    /\ maxBounds = 0
    /\ boundsSpherePosition = 0
    /\ boundsSphereRadius = 0
    /\ isCustom = FALSE
    /\ requiresSystemMirror = FALSE
    /\ requestResponseType = Null
    /\ extension = Null
    /\ boundsDirty = TRUE
    /\ custom = NoCustom
    /\ state = "NoInit"
    /\ systemMirrorEnabled = FALSE
    /\ pending = << >>
    /\ \E input \in DecodeInputs : last = Did("Tw2BinaryReader", input, Null, << >>)

ReadVertexBufferAct ==
    /\ last.op = "Tw2BinaryReader"
    /\ last' = Did("ReadVertexBuffer", last.arg,
                   ReadVertexBuffer(last.arg.types, last.arg.count, last.arg.seed), << >>)
    /\ UNCHANGED <<meshes, models, animations, minBounds, maxBounds, boundsSpherePosition,
                   boundsSphereRadius, isCustom, requiresSystemMirror,
                   requestResponseType, extension, boundsDirty, custom, state,
                   systemMirrorEnabled, pending>>

NextDecode == ReadVertexBufferAct

SpecDecode == InitDecode /\ [][NextDecode]_vars

-----------------------------------------------------------------------------
(* Vertex decoder claims *)

Decoded == last.op = "ReadVertexBuffer"

\* The encodings of the decode table.
Supported(fileType) == (fileType % 16) \in {0, 1, 2, 3, 4, 8, 9, 10}

AllSupported(types) == \A i \in 1..Len(types) : Supported(types[i])

\* C12 as claimed: a declaration with an element of unknown encoding always makes
\* ReadVertexBuffer throw ErrGeometryFileType carrying that element's encoding
\* byte, for every vertex count, zero included.
C12_UnknownEncodingThrows ==
    (Decoded /\ ~AllSupported(last.arg.types)) =>
        /\ last.ret.ret = "ErrGeometryFileType"
        /\ \E i \in 1..Len(last.arg.types) :
              /\ ~Supported(last.arg.types[i])
              /\ last.ret.value = last.arg.types[i]

\* Component count of an encoding, and the components of the first n elements.
Components(fileType) == (fileType \div 32) + 1

ComponentsBefore(types, n) ==
    Cardinality({ ic \in (1..n) \X (1..8) : ic[2] <= Components(types[ic[1]]) })

\* The element that component j (from 0) of a vertex belongs to.
ElementOf(types, j) ==
    CHOOSE i \in 1..Len(types) :
        ComponentsBefore(types, i - 1) <= j /\ j < ComponentsBefore(types, i)

\* The encoding that produced entry k (from 1) of the returned buffer.
EncodingOf(k) ==
    last.arg.types[ElementOf(last.arg.types,
                             (k - 1) % ComponentsBefore(last.arg.types, Len(last.arg.types)))]

\* C13 as claimed: every value decoded with the normalize bit lies in [-1,1] for
\* the signed encodings 0 and 1, and in [0,1] for the unsigned encodings 8 and 9.
C13_NormalizedInRange ==
    (Decoded /\ last.ret.ret = "buffer") =>
        \A k \in 1..Len(last.ret.buffer) :
            LET x == last.ret.buffer[k]
                f == EncodingOf(k)
            IN ((f \div 16) % 2 = 1) =>
                   /\ (f % 16) \in {0, 1} => (-x.den <= x.num /\ x.num <= x.den)
                   /\ (f % 16) \in {8, 9} => (0 <= x.num /\ x.num <= x.den)

\* C14: for a declaration of supported encodings, ReadVertexBuffer returns null
\* for vertex count 0 and otherwise a buffer of N * (total components) values;
\* element offsets are 4 * the components before, stride is 4 * the total; the
\* values are interleaved per vertex in declaration order, one scalar read per
\* component, the reads following one another in the stream.
C14_InterleavedLayout ==
    (Decoded /\ AllSupported(last.arg.types)) =>
        LET types == last.arg.types
            N == last.arg.count
            r == last.ret
            size == ComponentsBefore(types, Len(types))
        IN /\ N = 0 => r.ret = "null"
           /\ N > 0 =>
                /\ r.ret = "buffer"
                /\ Len(r.buffer) = N * size
                /\ r.declaration.stride = 4 * size
                /\ \A i \in 1..Len(types) :
                      /\ r.declaration.elements[i].elements = Components(types[i])
                      /\ r.declaration.elements[i].offset = 4 * ComponentsBefore(types, i - 1)
                /\ \A v \in 0..(N - 1) : \A i \in 1..Len(types) :
                      \A c \in 1..Components(types[i]) :
                          r.buffer[v * size + ComponentsBefore(types, i - 1) + c].read
                              = ScalarRead(types[i]).method
                /\ \A k \in 1..Len(r.buffer) :
                      r.buffer[k].at = (IF k = 1 THEN 0
                                        ELSE r.buffer[k - 1].at + r.buffer[k - 1].width)

\* C14 witness: two vertices of a two-component float element followed by a
\* normalized byte: six values.
C14_Witness ==
    /\ Decoded
    /\ last.arg.count = 2
    /\ last.arg.types = <<FileType(4, FALSE, 2), FileType(0, TRUE, 1)>>
    /\ last.ret.ret = "buffer"
    /\ Len(last.ret.buffer) = 6

-----------------------------------------------------------------------------
(* Tw2GeometryRes.BindMeshToModel (static) *)

\* Most bone names one mesh binds.
MaxBones == 2
\* Most mesh bindings a model collects.
MaxBindings == 2

\* The bones of the model's skeleton, and the names a mesh may ask for.
Skeleton == {"root", "spine"}
MeshBoneNames == Skeleton \cup {"tail"}

NoBox == [mesh |-> Null, bone |-> Null]

\* A Tw2GeometryModel as a reader builds it: bones without boxes, no binding.
NewModel ==
    [name |-> "model",
     bones |-> [n \in Skeleton |-> [boundingBox |-> NoBox]],
     meshBindings |-> << >>]

\* model.FindBoneByName(name): the bone, or Null
FindBoneByName(model, name) == IF name \in DOMAIN model.bones THEN name ELSE Null

\* mesh.FindBoneBoundsByName(name): the box the mesh keeps for that bone
FindBoneBoundsByName(mesh, name) == [mesh |-> mesh.name, bone |-> name]

\* The bone-name lists of a mesh: no name twice, at most MaxBones names.
BoneBindingLists ==
    { l \in UNION { [1..n -> MeshBoneNames] : n \in 0..MaxBones } :
        \A i, j \in 1..Len(l) : l[i] = l[j] => i = j }

\* A binding routine that appends the binding before resolving the names.
BindMeshToModelPushFirst(mesh, model) ==
    [model |-> [model EXCEPT !.meshBindings =
                    Append(@, [mesh |-> mesh.name, bones |-> mesh.boneBindings])],
     threw |-> IF \A i \in 1..Len(mesh.boneBindings) :
                     FindBoneByName(model, mesh.boneBindings[i]) # Null
               THEN Null ELSE "ErrGeometryMeshBoneNameInvalid"]

\* The loop over binding.mesh.boneBindings, for its first n names: the bones
\* collected, the model with the boxes assigned so far, and what was thrown.
RECURSIVE BindBones(_, _, _)
BindBones(mesh, model, n) ==
    IF n = 0 THEN [model |-> model, bones |-> << >>, threw |-> Null]
    ELSE LET sofar == BindBones(mesh, model, n - 1)
             name == mesh.boneBindings[n]
             bone == FindBoneByName(sofar.model, name)
         IN IF sofar.threw # Null THEN sofar
            ELSE IF bone = Null
                 THEN [sofar EXCEPT !.threw = "ErrGeometryMeshBoneNameInvalid"]
                 ELSE [sofar EXCEPT
                         !.bones = Append(@, bone),
                         !.model.bones[bone].boundingBox = FindBoneBoundsByName(mesh, name)]

\* BindMeshToModel(mesh, model, res): the model afterwards and what was thrown.
BindMeshToModel(mesh, model) ==
    LET r == BindBones(mesh, model, Len(mesh.boneBindings)) IN
    IF r.threw # Null
    THEN [model |-> r.model, threw |-> r.threw]
    ELSE [model |-> [r.model EXCEPT !.meshBindings =
                        Append(@, [mesh |-> mesh.name, bones |-> r.bones])],
          threw |-> Null]

\* A resource whose reader has built one model and is binding meshes to it.
InitBind ==
    /\ meshes = << >>
    /\ models = <<NewModel>>
    /\ animations = << >>
    /\ minBounds = 0
    /\ maxBounds = 0
    /\ boundsSpherePosition = 0
    /\ boundsSphereRadius = 0
    /\ isCustom = FALSE
    /\ requiresSystemMirror = FALSE
    /\ requestResponseType = Null
    /\ extension = Null
    /\ boundsDirty = TRUE
    /\ custom = NoCustom
    /\ state = "NoInit"
    /\ systemMirrorEnabled = FALSE
    /\ pending = << >>
    /\ last = Did("new", NoArg, Null, << >>)

BindMeshToModelAct ==
    \E names \in BoneBindingLists :
        LET mesh == [name |-> "mesh", boneBindings |-> names]
            r == BindMeshToModel(mesh, models[1])
        IN /\ Len(models[1].meshBindings) < MaxBindings
           /\ models' = <<r.model>>
           /\ last' = Did("BindMeshToModel", [boneBindings |-> names], r.threw, << >>)
           /\ UNCHANGED <<meshes, animations, minBounds, maxBounds, boundsSpherePosition,
                          boundsSphereRadius, isCustom, requiresSystemMirror,
                          requestResponseType, extension, boundsDirty, custom, state,
                          systemMirrorEnabled, pending>>

NextBind == BindMeshToModelAct

SpecBind == InitBind /\ [][NextBind]_vars

-----------------------------------------------------------------------------
(* Binding claims *)

\* The call's mesh asks for a name the skeleton does not have.
AsksUnknownBone(call) ==
    \E i \in 1..Len(call.arg.boneBindings) : call.arg.boneBindings[i] \notin Skeleton

\* C15: BindMeshToModel with a bone name the model cannot resolve throws
\* ErrGeometryMeshBoneNameInvalid and leaves model.meshBindings as it was,
\* wherever the unresolved name stands in the list.
C15_UnknownBoneThrowsNoBinding ==
    [][(last'.op = "BindMeshToModel" /\ AsksUnknownBone(last')) =>
          /\ last'.ret = "ErrGeometryMeshBoneNameInvalid"
          /\ models'[1].meshBindings = models[1].meshBindings]_vars

\* C15 witness: a model that already has a binding rejects a mesh whose second
\* name is unknown.
C15_Witness ==
    /\ last.op = "BindMeshToModel"
    /\ last.arg.boneBindings = <<"root", "tail">>
    /\ last.ret = "ErrGeometryMeshBoneNameInvalid"
    /\ Len(models[1].meshBindings) = 1

-----------------------------------------------------------------------------
(* Bounds rebuild claims *)

BoundsNow == <<minBounds, maxBounds, boundsSpherePosition, boundsSphereRadius>>

GeometryBox(ms) ==
    <<CHOOSE lo \in {ms[i].geom[1] : i \in 1..Len(ms)} :
          \A i \in 1..Len(ms) : lo <= ms[i].geom[1],
      CHOOSE hi \in {ms[i].geom[2] : i \in 1..Len(ms)} :
          \A i \in 1..Len(ms) : hi >= ms[i].geom[2]>>

\* C17: when the resource's flag is false and a mesh's flag is set, the next
\* non-forced RebuildBounds recomputes (every mesh's bounds rebuilt and united)
\* and leaves the resource's flag false.
C17_DirtyMeshForcesRecompute ==
    (/\ last.op = "RebuildBounds"
     /\ ~last.arg.force
     /\ ~last.arg.flag
     /\ last.arg.meshFlag) =>
        /\ ~boundsDirty
        /\ ~AnyMeshDirty(meshes)
        /\ \A i \in 1..Len(meshes) :
              <<meshes[i].minBounds, meshes[i].maxBounds>> = meshes[i].geom
        /\ <<minBounds, maxBounds>> = GeometryBox(meshes)

\* C17 witness: a non-forced rebuild right after a mesh of a two-mesh resource
\* was mutated, the resource's own flag being clear.
C17_Witness ==
    /\ last.op = "RebuildBounds"
    /\ last.arg.previous = "mesh.mutate"
    /\ ~last.arg.force
    /\ ~last.arg.flag
    /\ last.arg.meshFlag
    /\ Len(meshes) = 2
    /\ <<minBounds, maxBounds>> = GeometryBox(meshes)

-----------------------------------------------------------------------------
(* Generation claims *)

\* The models a successful Prepare of data d builds with the resource's reader:
\* one per mesh on the by-mesh path, the document's own on the structured path.
FreshModels(d) ==
    IF ByMesh(ReaderOf(extension)) THEN [i \in 1..Len(MeshesOf(d)) |-> d] ELSE ModelsOf(d)

FreshAnimations(d) ==
    IF ByMesh(ReaderOf(extension)) THEN << >> ELSE AnimationsOf(d)

\* C18: after a successful Prepare, meshes, models and animations hold exactly
\* the items built from the new data, none of the previous generation.
C18_NoResidualGeneration ==
    (last.op = "Prepare" /\ last.ret = "ok") =>
        /\ Len(meshes) = Len(MeshesOf(last.arg.data))
        /\ \A i \in 1..Len(meshes) :
              /\ meshes[i].areas = MeshesOf(last.arg.data)[i].areas
              /\ meshes[i].stride = MeshesOf(last.arg.data)[i].stride
              /\ meshes[i].geom = MeshesOf(last.arg.data)[i].geom
        /\ models = FreshModels(last.arg.data)
        /\ animations = FreshAnimations(last.arg.data)

\* C18 witness: a one-mesh Prepare on a resource that held two meshes.
C18_Witness ==
    /\ last.op = "Prepare"
    /\ last.ret = "ok"
    /\ last.arg.data = "single"
    /\ last.arg.had = 2
    /\ Len(meshes) = 1
    /\ Len(models) = 1

-----------------------------------------------------------------------------
(* Tw2GeometryRes.Unload *)

\* gl.deleteBuffer(handle) for one handle of mesh i, if the handle is set.
DeleteIfSet(ms, i, field) ==
    IF ms[i][field] # Null THEN << Ev("deleteBuffer", i, ms[i][field], 0) >> ELSE << >>

\* The first n turns of the loop over this.meshes: deleteBuffer calls so far.
RECURSIVE UnloadDeletes(_, _)
UnloadDeletes(ms, n) ==
    IF n = 0 THEN << >>
    ELSE UnloadDeletes(ms, n - 1) \o DeleteIfSet(ms, n, "buffer") \o DeleteIfSet(ms, n, "indexes")

\* An Unload that deletes the buffers and keeps the handles.
UnloadKeepsHandles(t) ==
    [this |-> [t EXCEPT !.state = "Unloaded"],
     ret |-> "true",
     events |-> UnloadDeletes(t.meshes, Len(t.meshes)) \o << Ev("OnUnloaded", 0, 0, 0) >>]

\* Unload(eventLog)
Unload(t) ==
    [this |-> [t EXCEPT !.meshes = [i \in 1..Len(t.meshes) |->
                                      [t.meshes[i] EXCEPT !.buffer = Null, !.indexes = Null]],
                        !.state = "Unloaded"],
     ret |-> "true",
     events |-> UnloadDeletes(t.meshes, Len(t.meshes)) \o << Ev("OnUnloaded", 0, 0, 0) >>]

UnloadAct ==
    LET r == Unload(This) IN
    /\ Becomes(r.this)
    /\ last' = Did("Unload", [previous |-> last.op], r.ret, r.events)
    /\ UNCHANGED <<systemMirrorEnabled, pending>>

NextUnload ==
    \/ DoCustomLoadAct({"obj", "wbg"})
    \/ PrepareAct(DataSet, {PlainFlags}, BOOLEAN)
    \/ ClearAct
    \/ MeshMutateAct
    \/ UnloadAct

SpecUnload == Init /\ [][NextUnload]_vars

-----------------------------------------------------------------------------
(* Unload claims *)

\* How often the call passed handle h of mesh i to deleteBuffer.
DeleteCount(call, i, h) ==
    Cardinality({ k \in 1..Len(call.events) :
                    /\ call.events[k].e = "deleteBuffer"
                    /\ call.events[k].a = i
                    /\ call.events[k].b = h })

DeletesNothing(call) ==
    \A k \in 1..Len(call.events) : call.events[k].e # "deleteBuffer"

\* C19: an Unload passes each set vertex-buffer and index-buffer handle to
\* deleteBuffer exactly once and no unset one, leaves both handles of every
\* mesh null, and an Unload directly after an Unload deletes nothing: no handle
\* is deleted twice.
C19_UnloadDeletesOnce ==
    [][last'.op = "Unload" =>
          /\ Len(meshes') = Len(meshes)
          /\ \A i \in 1..Len(meshes) :
                /\ meshes'[i].buffer = Null
                /\ meshes'[i].indexes = Null
                /\ DeleteCount(last', i, "vb") = (IF meshes[i].buffer = "vb" THEN 1 ELSE 0)
                /\ DeleteCount(last', i, "ib") = (IF meshes[i].indexes = "ib" THEN 1 ELSE 0)
          /\ last.op = "Unload" => DeletesNothing(last')]_vars

\* C19 witness: a second Unload in a row on a two-mesh resource.
C19_Witness ==
    /\ last.op = "Unload"
    /\ last.arg.previous = "Unload"
    /\ Len(meshes) = 2
    /\ DeletesNothing(last)
    /\ \A i \in 1..2 : meshes[i].buffer = Null /\ meshes[i].indexes = Null

-----------------------------------------------------------------------------
(* Instance divisor claims *)

\* How many of the last call's effects carry the given name.
EventCount(name) ==
    Cardinality({ k \in 1..Len(last.events) : last.events[k].e = name })

\* C20 as claimed: whenever RenderAreasInstanced returns, true or false, every
\* binding of the instance declaration has been followed by its
\* ResetInstanceDivisors, also on the return for a missing area.
C20_DivisorsAlwaysReset ==
    last.op = "RenderAreasInstanced" =>
        EventCount("ResetInstanceDivisors") = EventCount("SetPartialDeclaration:instance")

-----------------------------------------------------------------------------
(* Reader selection claims *)

\* C22 as claimed: once DoCustomLoad has accepted an extension (the resource
\* holds it in _extension), a following Prepare finds the reader and does not
\* throw ErrResourceFormatUnsupported, whatever the casing of the extension.
C22_AcceptedExtensionPrepares ==
    (last.op = "Prepare" /\ extension # Null) =>
        last.ret # "ErrResourceFormatUnsupported"

-----------------------------------------------------------------------------
(* Bone box claims *)

\* C23 as claimed: a BindMeshToModel call that fails with
\* ErrGeometryMeshBoneNameInvalid leaves the whole model as it was: the binding
\* list and the boundingBox of every bone.
C23_FailedBindKeepsModel ==
    [][(last'.op = "BindMeshToModel" /\ last'.ret = "ErrGeometryMeshBoneNameInvalid") =>
          /\ models'[1].meshBindings = models[1].meshBindings
          /\ \A n \in Skeleton :
                models'[1].bones[n].boundingBox = models[1].bones[n].boundingBox]_vars

-----------------------------------------------------------------------------
(* Rendering a mesh with 32-bit indices *)

NextWide ==
    \/ DoCustomLoadAct({"obj", "xyz"})
    \/ PrepareAct({"wide", "pair"}, {PlainFlags}, {FALSE})
    \/ RenderAreasAct
    \/ RenderLinesAct
    \/ RenderAreasInstancedAct

SpecWide == Init /\ [][NextWide]_vars

-----------------------------------------------------------------------------
(* Index width claims *)

\* The indices a draw or an area (byte offset, count) covers in an index
\* buffer whose elements are w bytes wide.
IndexRange(offset, count, w) == (offset \div w)..((offset \div w) + count - 1)

\* The indices covered by a list of (offset, count) pairs.
Covered(pairs, w) ==
    UNION { IndexRange(pairs[k][1], pairs[k][2], w) : k \in 1..Len(pairs) }

\* The requested areas of the last render call.
RequestedAreas ==
    [k \in 1..last.arg.count |-> RenderedMesh.areas[last.arg.start + k]]

\* C21 as claimed: for 16-bit and 32-bit meshes alike, merged draws cover the
\* union of the index ranges of the areas they merge: the draws of a pass cover
\* exactly the indices the requested areas cover when drawn one by one.
C21_MergedDrawsCoverAreas ==
    (Rendered(RenderCalls) /\ AreasAllExist /\ last.ret = "true") =>
        \A p \in PassIndexes :
            WalksAreas(p) =>
                Covered(DrawsOfPass(last.events, p), RenderedMesh.indexBytes)
                    = Covered(RequestedAreas, RenderedMesh.indexBytes)

-----------------------------------------------------------------------------
(* EveSOFDataFaction (src/src/sof/faction/EveSOFDataFaction.js): type lookups *)

\* Largest logo/area type number.
MaxType == 1

Types == 0..MaxType

\* `undefined`, for an omitted fallback argument and for a lookup without result.
Undefined == -1

\* A struct field of the faction (logoSet, areaTypes): null, or the set holding
\* an entry for each type in `types`.
TypeSets == { [present |-> FALSE, types |-> {}] }
            \cup { [present |-> TRUE, types |-> s] : s \in SUBSET Types }

Factions == [logoSet : TypeSets, areaTypes : TypeSets]

\* What a lookup returns or throws.
Entry(kind, type) == [kind |-> kind, type |-> type]

\* HasAreaType(type), HasLogoType(type)
HasAreaType(f, type) == IF f.areaTypes.present THEN type \in f.areaTypes.types ELSE FALSE
HasLogoType(f, type) == IF f.logoSet.present THEN type \in f.logoSet.types ELSE FALSE

\* set.Get(type) on a set that need not hold the type, or be there at all.
GetFrom(set, kind, type) ==
    IF ~set.present THEN Entry("TypeError", type)
    ELSE IF type \in set.types THEN Entry(kind, type) ELSE Entry("undefined", Undefined)

\* GetAreaType(type, fallback)
GetAreaType(f, type, fallback) ==
    IF ~f.areaTypes.present THEN Entry("ErrSOFAreaTypeNotFound", type)
    ELSE IF HasAreaType(f, type) THEN GetFrom(f.areaTypes, "area", type)
    ELSE IF fallback # Undefined /\ HasAreaType(f, fallback)
         THEN GetFrom(f.areaTypes, "area", fallback)
         ELSE Entry("undefined", Undefined)

\* GetLogoType(type, fallback)
GetLogoType(f, type, fallback) ==
    IF ~f.logoSet.present THEN Entry("ErrSOFLogoSetTypeNotFound", type)
    ELSE IF HasLogoType(f, type) THEN GetFrom(f.logoSet, "logo", type)
    ELSE IF fallback # Undefined /\ HasAreaType(f, fallback)
         THEN GetFrom(f.areaTypes, "area", fallback)
         ELSE Entry("undefined", Undefined)

\* The lookups asked of a faction.
Lookups == [faction : Factions, type : Types, fallback : Types \cup {Undefined}]

\* A faction as loaded, and a lookup about to be made on it.
InitFaction ==
    /\ meshes = << >>
    /\ models = << >>
    /\ animations = << >>
    /\ minBounds = 0
    /\ maxBounds = 0
    /\ boundsSpherePosition = 0
    /\ boundsSphereRadius = 0
    /\ isCustom = FALSE
    /\ requiresSystemMirror = FALSE
    /\ requestResponseType = Null
    /\ extension = Null
    /\ boundsDirty = TRUE
    /\ custom = NoCustom
    /\ state = "NoInit"
    /\ systemMirrorEnabled = FALSE
    /\ pending = << >>
    /\ \E l \in Lookups : last = Did("EveSOFDataFaction", l, Null, << >>)

Untouched ==
    UNCHANGED <<meshes, models, animations, minBounds, maxBounds, boundsSpherePosition,
                boundsSphereRadius, isCustom, requiresSystemMirror, requestResponseType,
                extension, boundsDirty, custom, state, systemMirrorEnabled, pending>>

GetLogoTypeAct ==
    /\ last.op = "EveSOFDataFaction"
    /\ last' = Did("GetLogoType", last.arg,
                   GetLogoType(last.arg.faction, last.arg.type, last.arg.fallback), << >>)
    /\ Untouched

GetAreaTypeAct ==
    /\ last.op = "EveSOFDataFaction"
    /\ last' = Did("GetAreaType", last.arg,
                   GetAreaType(last.arg.faction, last.arg.type, last.arg.fallback), << >>)
    /\ Untouched

NextFaction == GetLogoTypeAct \/ GetAreaTypeAct

SpecFaction == InitFaction /\ [][NextFaction]_vars

-----------------------------------------------------------------------------
(* Faction lookup claims *)

\* C24 as claimed: GetLogoType on a faction whose logo set lacks `type` but has
\* `fallback` returns the logo set's entry for `fallback`; and its result is
\* never an entry of areaTypes.
C24_LogoFallbackWithinLogoSet ==
    last.op = "GetLogoType" =>
        /\ (/\ last.arg.faction.logoSet.present
            /\ last.arg.type \notin last.arg.faction.logoSet.types
            /\ last.arg.fallback \in last.arg.faction.logoSet.types) =>
               last.ret = Entry("logo", last.arg.fallback)
        /\ last.ret.kind # "area"

====
